---------------------------- MODULE Spec2Model ----------------------------
(***************************************************************************)
(* The Plant Exchange (src/server.js): the EventStore (in-memory log plus  *)
(* a whole-document JSON file), the StateProjections (three rxjs scan      *)
(* pipelines feeding three BehaviorSubjects, and rebuildFromHistory) and   *)
(* the SSE fan-out of PlantExchangeServer.                                 *)
(*                                                                         *)
(* JavaScript runs every handler to completion, so one action is the       *)
(* synchronous part of one handler.  EventStore.append is synchronous up   *)
(* to the `await` of fs.writeFile: the sequence number, the push, the      *)
(* whole Subject.next dispatch (scans, BehaviorSubjects, SSE broadcasts)   *)
(* and the JSON.stringify of the log happen in one step; the write then    *)
(* settles in a later step (WriteDone / WriteFail), at which point the     *)
(* append returns to its caller.                                           *)
(*                                                                         *)
(* Abstractions: an event keeps type, payload and sequenceNumber (the      *)
(* uuid, timestamp, version and memberId fields of createEvent are never   *)
(* read by the log, the projections or the hub); a payload keeps its key   *)
(* (id or plantId) and, for plants, the 'offer' / 'wanted' field; a Map    *)
(* is a function from keys to payloads (insertion order is not kept); a    *)
(* file write replaces the whole document or leaves it untouched.          *)
(***************************************************************************)
EXTENDS Naturals, Sequences, FiniteSets, TLC

\* ------------------------------------------------------------------ bounds
NumIds == 2        \* entity ids 1..NumIds
NumClients == 2    \* SSE connections 1..NumClients
MaxHist == 1       \* longest persisted log found at startup
MaxLog == 2        \* appends stop when the in-memory log has MaxLog events
MaxStoreLog == 3   \* the same in the specification without SSE clients
MaxInbox == 4      \* rebuildFromHistory is not called on a longer stream

Ids == 1..NumIds
Clients == 1..NumClients

\* ------------------------------------------------------------- event model
EventTypes ==
  {"MEMBER_REGISTERED", "PLANT_OFFERED", "PLANT_WANTED", "MESSAGE_SENT",
   "TRADE_INITIATED", "TRADE_COMPLETED", "PLANT_REMOVED"}

createMember(i) == [id |-> i]
createPlant(i, t) == [id |-> i, type |-> t]
createMessage(i) == [id |-> i]
createEvent(t, p) == [type |-> t, payload |-> p]

\* The draft events handed to EventStore.append.
DraftEvents ==
       {createEvent("MEMBER_REGISTERED", createMember(i)) : i \in Ids}
  \cup {createEvent("PLANT_OFFERED", createPlant(i, "offer")) : i \in Ids}
  \cup {createEvent("PLANT_WANTED", createPlant(i, "wanted")) : i \in Ids}
  \cup {createEvent("MESSAGE_SENT", createMessage(i)) : i \in Ids}
  \cup {createEvent("PLANT_REMOVED", [plantId |-> i]) : i \in Ids}
  \cup {createEvent(t, [tradeId |-> 1]) :
          t \in {"TRADE_INITIATED", "TRADE_COMPLETED"}}

\* eventWithMetadata of EventStore.append: the draft plus sequenceNumber.
WithMetadata(e, n) ==
  [type |-> e.type, payload |-> e.payload, sequenceNumber |-> n]

EmptyMap == [k \in {} |-> 0]

VARIABLES
  phase,         \* "constructed" (new PlantExchangeServer()), "initializing"
                 \* (initialize awaits its file read) or "running"
  file,          \* the document last written to events.json
  readable,      \* FALSE: events.json is missing or does not parse
  eventHistory,  \* EventStore.eventHistory
  calls,         \* the appends invoked so far, with their write and result
  scanMembers,   \* accumulator of the members scan
  scanPlants,    \* accumulator of the plants scan
  scanMessages,  \* accumulator of the messages scan
  members,       \* members$.value
  plants,        \* plants$.value
  messages,      \* messages$.value
  sseClients,    \* PlantExchangeServer.sseClients
  open,          \* the connections whose request has not emitted 'close' yet
  inbox,         \* inbox[c]: what has been written to response c, in order,
                 \* since it joined sseClients (<<>> once it has left the set)
  stopped        \* what the server process that ran before this one held
                 \* when it stopped ([ran |-> FALSE]: there was none)

vars == <<phase, file, readable, eventHistory, calls, scanMembers, scanPlants,
          scanMessages, members, plants, messages, sseClients, open, inbox,
          stopped>>

storeVars == <<file, readable, eventHistory, calls>>
projVars == <<scanMembers, scanPlants, scanMessages, members, plants, messages>>


\* ------------------------------------------------------------ Map helpers
\* Map.prototype.set on a copy of m.
MapSet(m, k, v) == [x \in (DOMAIN m) \cup {k} |-> IF x = k THEN v ELSE m[x]]

\* Map.prototype.delete on a copy of m (an absent key is left absent).
MapDelete(m, k) == [x \in (DOMAIN m) \ {k} |-> m[x]]

\* Array.from(map.values()): the payloads without their keys.
Values(m) == {m[k] : k \in DOMAIN m}

\* --------------------------------------------- projections: live pipelines
membersFilter(event) == event.type = "MEMBER_REGISTERED"
\* A plants filter that lets PLANT_REMOVED events pass by.
plantsFilterWithoutRemoved(event) ==
  event.type \in {"PLANT_OFFERED", "PLANT_WANTED"}
plantsFilter(event) ==
  event.type \in {"PLANT_OFFERED", "PLANT_WANTED", "PLANT_REMOVED"}
messagesFilter(event) == event.type = "MESSAGE_SENT"

membersScan(acc, event) == MapSet(acc, event.payload.id, event.payload)

\* A plants reducer whose PLANT_REMOVED branch empties the mapping.
plantsScanRemoveAll(acc, event) ==
  CASE event.type \in {"PLANT_OFFERED", "PLANT_WANTED"} ->
         MapSet(acc, event.payload.id, event.payload)
    [] event.type = "PLANT_REMOVED" -> EmptyMap
    [] OTHER -> acc

plantsScan(acc, event) ==
  CASE event.type \in {"PLANT_OFFERED", "PLANT_WANTED"} ->
         MapSet(acc, event.payload.id, event.payload)
    [] event.type = "PLANT_REMOVED" -> MapDelete(acc, event.payload.plantId)
    [] OTHER -> acc

messagesScan(acc, event) == MapSet(acc, event.payload.id, event.payload)

\* ------------------------------------------ projections: rebuildFromHistory
\* R.fromPairs over [payload.id, payload] pairs: the last pair of a key wins.
RECURSIVE fromPairs(_)
fromPairs(events) ==
  IF events = <<>> THEN EmptyMap
  ELSE LET last == events[Len(events)]
       IN  MapSet(fromPairs(SubSeq(events, 1, Len(events) - 1)),
                  last.payload.id, last.payload)

\* R.omit(keys, obj)
omit(keys, obj) == [x \in (DOMAIN obj) \ keys |-> obj[x]]

plantSetFilter(event) == event.type \in {"PLANT_OFFERED", "PLANT_WANTED"}
plantRemovedFilter(event) == event.type = "PLANT_REMOVED"

rebuildMembers(events) == fromPairs(SelectSeq(events, membersFilter))

\* A replay of the plants that leaves the removals out.
rebuildPlantsKeepingRemoved(events) ==
  fromPairs(SelectSeq(events, plantSetFilter))

rebuildPlants(events) ==
  LET plantsObj == fromPairs(SelectSeq(events, plantSetFilter))
      removed == SelectSeq(events, plantRemovedFilter)
      removedPlants == {removed[i].payload.plantId : i \in 1..Len(removed)}
  IN  omit(removedPlants, plantsObj)

rebuildMessages(events) == fromPairs(SelectSeq(events, messagesFilter))

\* A variant that reads the scan accumulators instead of the
\* BehaviorSubjects.
getCurrentStateOfScans ==
  [members |-> Values(scanMembers), plants |-> Values(scanPlants),
   messages |-> Values(scanMessages)]

\* StateProjections.getCurrentState
getCurrentState ==
  [members |-> Values(members), plants |-> Values(plants),
   messages |-> Values(messages)]

\* ------------------------------------------------------------- SSE fan-out
\* A variant whose loop ends after the first client it writes to.
broadcastToFirstClient(h, data, bad) ==
  [clients |-> h.clients \ bad,
   inbox |-> [c \in Clients |->
               IF c \in h.clients \ bad
               THEN IF \A o \in h.clients \ bad : c <= o
                    THEN Append(h.inbox[c], data) ELSE h.inbox[c]
               ELSE IF c \in h.clients THEN <<>>
               ELSE h.inbox[c]]]

\* A variant without the try/catch around client.write: the first throw ends
\* the loop (clients are visited in ascending order), nobody is deleted and
\* the clients after the throwing one are not written to.
broadcastWithoutCatch(h, data, bad) ==
  [clients |-> h.clients,
   inbox |-> [c \in Clients |->
               IF c \in h.clients /\ \A b \in bad : c < b
               THEN Append(h.inbox[c], data)
               ELSE h.inbox[c]]]

\* broadcastToSSEClients on the hub h = [clients, inbox]: the message is
\* written to every registered client; the clients in bad are those whose
\* write throws, and they are deleted from the set (their response is no
\* longer observed).
broadcastToSSEClients(h, data, bad) ==
  [clients |-> h.clients \ bad,
   inbox |-> [c \in Clients |->
               IF c \in h.clients \ bad THEN Append(h.inbox[c], data)
               ELSE IF c \in h.clients THEN <<>>
               ELSE h.inbox[c]]]

\* The messages of setupSSE.
EventMsg(event) == [type |-> "event", data |-> event]
UpdatedMsg(name, map) == [type |-> name, data |-> Values(map)]
InitialStateMsg(state) == [type |-> "initial_state", data |-> state]

UpdateTypes == {"members_updated", "plants_updated", "messages_updated"}

\* ------------------------------------------------------------------- Init
\* The documents an earlier run can have left in events.json: the events
\* carry sequenceNumbers 1..n in order.
PersistedLogs ==
  UNION {{[i \in 1..n |-> WithMetadata(d[i], i)] : d \in [1..n -> DraftEvents]} :
           n \in 0..MaxHist}

\* The state after `new PlantExchangeServer()`: an empty log, the three
\* BehaviorSubjects holding the empty Map that the constructor's
\* rebuildFromHistory put there, no SSE client; events.json is whatever an
\* earlier run left, or is missing / unparseable.
Init ==
  /\ phase = "constructed"
  /\ readable \in BOOLEAN
  /\ file \in (IF readable THEN PersistedLogs ELSE {<<>>})
  /\ eventHistory = <<>>
  /\ calls = <<>>
  /\ scanMembers = EmptyMap
  /\ scanPlants = EmptyMap
  /\ scanMessages = EmptyMap
  /\ members = EmptyMap
  /\ plants = EmptyMap
  /\ messages = EmptyMap
  /\ sseClients = {}
  /\ open = {}
  /\ inbox = [c \in Clients |-> <<>>]
  /\ stopped = [ran |-> FALSE]

\* An initialize that does not take over the document it read.
initializeIgnoringFile == <<>>

\* ---------------------------------------------------------------- actions
\* EventStore.initialize: the parsed document, or [] when the read or the
\* parse throws.
initialize == IF readable THEN file ELSE <<>>

\* A start whose initialize has no catch: a read or parse error rejects
\* start(), and the server never runs.
StartWithoutCatch ==
  /\ phase = "constructed"
  /\ readable
  /\ phase' = "running"
  /\ eventHistory' = initialize
  /\ members' = rebuildMembers(eventHistory')
  /\ plants' = rebuildPlants(eventHistory')
  /\ messages' = rebuildMessages(eventHistory')
  /\ LET h0 == [clients |-> sseClients, inbox |-> inbox]
         h1 == broadcastToSSEClients(h0, UpdatedMsg("members_updated", members'), {})
         h2 == broadcastToSSEClients(h1, UpdatedMsg("plants_updated", plants'), {})
         h3 == broadcastToSSEClients(h2, UpdatedMsg("messages_updated", messages'), {})
     IN  /\ sseClients' = h3.clients
         /\ inbox' = h3.inbox
  /\ UNCHANGED <<file, readable, calls, scanMembers, scanPlants, scanMessages, open>>
  /\ UNCHANGED stopped

\* PlantExchangeServer.start: initialize, rebuildFromHistory (each next() on
\* a BehaviorSubject reaches the setupSSE subscriber, which broadcasts), then
\* listen.  The scan accumulators are not touched by rebuildFromHistory.
Start ==
  /\ phase = "constructed"
  /\ phase' = "running"
  /\ eventHistory' = initialize
  /\ members' = rebuildMembers(eventHistory')
  /\ plants' = rebuildPlants(eventHistory')
  /\ messages' = rebuildMessages(eventHistory')
  /\ LET h0 == [clients |-> sseClients, inbox |-> inbox]
         h1 == broadcastToSSEClients(h0, UpdatedMsg("members_updated", members'), {})
         h2 == broadcastToSSEClients(h1, UpdatedMsg("plants_updated", plants'), {})
         h3 == broadcastToSSEClients(h2, UpdatedMsg("messages_updated", messages'), {})
     IN  /\ sseClients' = h3.clients
         /\ inbox' = h3.inbox
  /\ UNCHANGED <<file, readable, calls, scanMembers, scanPlants, scanMessages, open>>
  /\ UNCHANGED stopped

\* What an append hands back once its write has settled: persist() catches
\* the rejection of fs.writeFile, so append returns eventWithMetadata whether
\* the write succeeded or not.
appendResult(writeOk) == "event"

\* A dispatch that, after every event, pushes all three accumulators into
\* their BehaviorSubjects, whether their filter matched or not.
DispatchRefreshingAll(h, event, bad1, bad2) ==
  LET m == IF membersFilter(event) THEN membersScan(scanMembers, event)
           ELSE scanMembers
      p == IF plantsFilter(event) THEN plantsScan(scanPlants, event)
           ELSE scanPlants
      g == IF messagesFilter(event) THEN messagesScan(scanMessages, event)
           ELSE scanMessages
      h1 == IF membersFilter(event)
            THEN broadcastToSSEClients(h, UpdatedMsg("members_updated", m), bad1)
            ELSE h
      h2 == IF plantsFilter(event)
            THEN broadcastToSSEClients(h1, UpdatedMsg("plants_updated", p), bad1)
            ELSE h1
      h3 == IF messagesFilter(event)
            THEN broadcastToSSEClients(h2, UpdatedMsg("messages_updated", g), bad1)
            ELSE h2
      h4 == broadcastToSSEClients(h3, EventMsg(event), bad2)
  IN  [scanMembers |-> m, scanPlants |-> p, scanMessages |-> g,
       members |-> m,
       plants |-> p,
       messages |-> g,
       hub |-> h4]

\* A dispatch in which only the 'event' broadcaster is subscribed: the event
\* is broadcast, no pipeline folds it and no projection changes.
DispatchEventOnly(h, event, bad1, bad2) ==
  [scanMembers |-> scanMembers, scanPlants |-> scanPlants,
   scanMessages |-> scanMessages,
   members |-> members, plants |-> plants, messages |-> messages,
   hub |-> broadcastToSSEClients(h, EventMsg(event), bad2)]

\* Subject.next(eventWithMetadata): the observers run in subscription order,
\* the three projection pipelines (subscribed in the StateProjections
\* constructor) and then the 'event' broadcaster of setupSSE.  A pipeline
\* whose filter matches folds the event into its scan accumulator and pushes
\* the result into its BehaviorSubject, whose setupSSE subscriber broadcasts
\* the '..._updated' message at once.  bad1 / bad2: the clients whose write
\* throws during the '..._updated' / the 'event' broadcast.
Dispatch(h, event, bad1, bad2) ==
  LET m == IF membersFilter(event) THEN membersScan(scanMembers, event)
           ELSE scanMembers
      p == IF plantsFilter(event) THEN plantsScan(scanPlants, event)
           ELSE scanPlants
      g == IF messagesFilter(event) THEN messagesScan(scanMessages, event)
           ELSE scanMessages
      h1 == IF membersFilter(event)
            THEN broadcastToSSEClients(h, UpdatedMsg("members_updated", m), bad1)
            ELSE h
      h2 == IF plantsFilter(event)
            THEN broadcastToSSEClients(h1, UpdatedMsg("plants_updated", p), bad1)
            ELSE h1
      h3 == IF messagesFilter(event)
            THEN broadcastToSSEClients(h2, UpdatedMsg("messages_updated", g), bad1)
            ELSE h2
      h4 == broadcastToSSEClients(h3, EventMsg(event), bad2)
  IN  [scanMembers |-> m, scanPlants |-> p, scanMessages |-> g,
       members |-> IF membersFilter(event) THEN m ELSE members,
       plants |-> IF plantsFilter(event) THEN p ELSE plants,
       messages |-> IF messagesFilter(event) THEN g ELSE messages,
       hub |-> h4]

Matches(event) ==
  membersFilter(event) \/ plantsFilter(event) \/ messagesFilter(event)

\* A variant that numbers from the length of the persisted document (the
\* number is taken from what is on disk instead of what is in memory).
nextSequenceNumberFromFile(history) == Len(file) + 1

\* The sequence number EventStore.append gives to the next event.
nextSequenceNumber(history) == Len(history) + 1

\* EventStore.append up to its await: sequence number, push, next(), and the
\* start of persist(), which serialises the log as it is now.
push(e, bad1, bad2) ==
  /\ bad1 \subseteq sseClients
  /\ bad2 \subseteq sseClients \ bad1
  /\ LET eventWithMetadata == WithMetadata(e, nextSequenceNumber(eventHistory))
         d == Dispatch([clients |-> sseClients, inbox |-> inbox],
                       eventWithMetadata, bad1, bad2)
     IN  /\ Matches(eventWithMetadata) \/ bad1 = {}
         /\ eventHistory' = Append(eventHistory, eventWithMetadata)
         /\ scanMembers' = d.scanMembers
         /\ scanPlants' = d.scanPlants
         /\ scanMessages' = d.scanMessages
         /\ members' = d.members
         /\ plants' = d.plants
         /\ messages' = d.messages
         /\ sseClients' = d.hub.clients
         /\ inbox' = d.hub.inbox
         /\ calls' = Append(calls, [event |-> eventWithMetadata,
                                    doc |-> eventHistory',
                                    write |-> "pending",
                                    result |-> "none"])
  /\ UNCHANGED <<phase, file, readable, open>>
  /\ UNCHANGED stopped

\* An append on the server: the routes call it once start() has listened.
append(e, bad1, bad2) ==
  /\ phase = "running"
  /\ push(e, bad1, bad2)

\* An append while the log is shorter than MaxLog.
AppendEvent(e, bad1, bad2) ==
  /\ Len(eventHistory) < MaxLog
  /\ append(e, bad1, bad2)

\* A write that adds the event of call k at the end of events.json instead
\* of replacing the document.
WriteDoneAppending(k) ==
  /\ k \in 1..Len(calls)
  /\ calls[k].write = "pending"
  /\ file' = Append(file, calls[k].event)
  /\ readable' = TRUE
  /\ calls' = [calls EXCEPT ![k].write = "done", ![k].result = appendResult(TRUE)]
  /\ UNCHANGED <<phase, eventHistory, sseClients, open, inbox>>
  /\ UNCHANGED projVars
  /\ UNCHANGED stopped

\* fs.writeFile of call k resolves: the document replaces events.json and
\* the append returns.
WriteDone(k) ==
  /\ k \in 1..Len(calls)
  /\ calls[k].write = "pending"
  /\ file' = calls[k].doc
  /\ readable' = TRUE
  /\ calls' = [calls EXCEPT ![k].write = "done", ![k].result = appendResult(TRUE)]
  /\ UNCHANGED <<phase, eventHistory, sseClients, open, inbox>>
  /\ UNCHANGED projVars
  /\ UNCHANGED stopped

\* A variant of WriteFail that rolls the append back: the event of call k
\* is taken out of the in-memory log again.
WriteFailRollback(k) ==
  /\ k \in 1..Len(calls)
  /\ calls[k].write = "pending"
  /\ calls' = [calls EXCEPT ![k].write = "failed", ![k].result = appendResult(FALSE)]
  /\ eventHistory' =
       SelectSeq(eventHistory, LAMBDA ev : ev # calls[k].event)
  /\ UNCHANGED <<phase, file, readable, sseClients, open, inbox>>
  /\ UNCHANGED projVars
  /\ UNCHANGED stopped

\* A failing write after which the append never resumes: its caller is left
\* waiting.
WriteFailHanging(k) ==
  /\ k \in 1..Len(calls)
  /\ calls[k].write = "pending"
  /\ calls' = [calls EXCEPT ![k].write = "failed"]
  /\ UNCHANGED <<phase, file, readable, eventHistory, sseClients, open, inbox>>
  /\ UNCHANGED projVars
  /\ UNCHANGED stopped

\* fs.writeFile of call k rejects: events.json keeps its content, persist()
\* logs the error and the append returns.
WriteFail(k) ==
  /\ k \in 1..Len(calls)
  /\ calls[k].write = "pending"
  /\ calls' = [calls EXCEPT ![k].write = "failed", ![k].result = appendResult(FALSE)]
  /\ UNCHANGED <<phase, file, readable, eventHistory, sseClients, open, inbox>>
  /\ UNCHANGED projVars
  /\ UNCHANGED stopped

\* A registration that also replays the log to the new subscriber, one
\* 'event' message per event of the history.
RegisterWithReplay(c) ==
  /\ phase = "running"
  /\ c \notin open
  /\ open' = open \cup {c}
  /\ sseClients' = sseClients \cup {c}
  /\ inbox' = [inbox EXCEPT ![c] =
                 <<InitialStateMsg(getCurrentState)>> \o
                 [n \in 1..Len(eventHistory) |-> EventMsg(eventHistory[n])]]
  /\ UNCHANGED <<phase>>
  /\ UNCHANGED storeVars
  /\ UNCHANGED projVars
  /\ UNCHANGED stopped

\* A registration whose initial_state is taken from empty projections.
RegisterWithEmptyState(c) ==
  /\ phase = "running"
  /\ c \notin open
  /\ open' = open \cup {c}
  /\ sseClients' = sseClients \cup {c}
  /\ inbox' = [inbox EXCEPT ![c] =
                 <<InitialStateMsg([members |-> {}, plants |-> {}, messages |-> {}])>>]
  /\ UNCHANGED <<phase>>
  /\ UNCHANGED storeVars
  /\ UNCHANGED projVars
  /\ UNCHANGED stopped

\* GET /events on a new connection c: the response joins sseClients and is
\* sent the initial_state message.
Register(c) ==
  /\ phase = "running"
  /\ c \notin open
  /\ open' = open \cup {c}
  /\ sseClients' = sseClients \cup {c}
  /\ inbox' = [inbox EXCEPT ![c] = <<InitialStateMsg(getCurrentState)>>]
  /\ UNCHANGED <<phase>>
  /\ UNCHANGED storeVars
  /\ UNCHANGED projVars
  /\ UNCHANGED stopped

\* A close handler that clears the whole set instead of deleting its own
\* response.
CloseClearing(c) ==
  /\ c \in open
  /\ open' = open \ {c}
  /\ sseClients' = {}
  /\ inbox' = [o \in Clients |-> <<>>]
  /\ UNCHANGED <<phase>>
  /\ UNCHANGED storeVars
  /\ UNCHANGED projVars
  /\ UNCHANGED stopped

\* The 'close' event of connection c's request.
Close(c) ==
  /\ c \in open
  /\ open' = open \ {c}
  /\ sseClients' = sseClients \ {c}
  /\ inbox' = [inbox EXCEPT ![c] = <<>>]
  /\ UNCHANGED <<phase>>
  /\ UNCHANGED storeVars
  /\ UNCHANGED projVars
  /\ UNCHANGED stopped

Next ==
  \/ Start
  \/ \E e \in DraftEvents, bad1, bad2 \in SUBSET Clients : AppendEvent(e, bad1, bad2)
  \/ \E k \in 1..MaxLog : WriteDone(k)
  \/ \E k \in 1..MaxLog : WriteFail(k)
  \/ \E c \in Clients : Register(c)
  \/ \E c \in Clients : Close(c)

Spec == Init /\ [][Next]_vars

\* ----------------------------------------------------- file writes settle
\* The write of call k completes or fails.
Settle(k) == WriteDone(k) \/ WriteFail(k)

\* The server of Spec, on a file system where every write that was started
\* completes or fails in the end.
SpecLive == Spec /\ \A k \in 1..MaxLog : WF_vars(Settle(k))

\* ------------------------------------------- rebuildFromHistory at run time
\* m1 with the entries of m2 written over it.
Merge(m1, m2) ==
  [k \in DOMAIN m1 \cup DOMAIN m2 |-> IF k \in DOMAIN m2 THEN m2[k] ELSE m1[k]]

\* A rebuild that writes the replayed entries over the values the projections
\* hold instead of replacing them.
rebuildFromHistoryMerging(bad) ==
  /\ phase = "running"
  /\ bad \subseteq sseClients
  /\ members' = Merge(members, rebuildMembers(eventHistory))
  /\ plants' = Merge(plants, rebuildPlants(eventHistory))
  /\ messages' = Merge(messages, rebuildMessages(eventHistory))
  /\ LET h0 == [clients |-> sseClients, inbox |-> inbox]
         h1 == broadcastToSSEClients(h0, UpdatedMsg("members_updated", members'), bad)
         h2 == broadcastToSSEClients(h1, UpdatedMsg("plants_updated", plants'), {})
         h3 == broadcastToSSEClients(h2, UpdatedMsg("messages_updated", messages'), {})
     IN  /\ sseClients' = h3.clients
         /\ inbox' = h3.inbox
  /\ UNCHANGED <<phase, scanMembers, scanPlants, scanMessages, open>>
  /\ UNCHANGED storeVars
  /\ UNCHANGED stopped

\* A rebuild that takes the events out of the log as it replays them.
rebuildFromHistoryDraining(bad) ==
  /\ phase = "running"
  /\ bad \subseteq sseClients
  /\ members' = rebuildMembers(eventHistory)
  /\ plants' = rebuildPlants(eventHistory)
  /\ messages' = rebuildMessages(eventHistory)
  /\ LET h0 == [clients |-> sseClients, inbox |-> inbox]
         h1 == broadcastToSSEClients(h0, UpdatedMsg("members_updated", members'), bad)
         h2 == broadcastToSSEClients(h1, UpdatedMsg("plants_updated", plants'), {})
         h3 == broadcastToSSEClients(h2, UpdatedMsg("messages_updated", messages'), {})
     IN  /\ sseClients' = h3.clients
         /\ inbox' = h3.inbox
  /\ UNCHANGED <<phase, scanMembers, scanPlants, scanMessages, open>>
  /\ eventHistory' = <<>>
  /\ UNCHANGED <<file, readable, calls>>
  /\ UNCHANGED stopped

\* StateProjections.rebuildFromHistory called on the running server: the
\* three BehaviorSubjects are replaced by what the log gives; each next()
\* reaches the setupSSE subscriber, which broadcasts.  bad: the clients whose
\* write throws during these broadcasts.
rebuildFromHistory(bad) ==
  /\ phase = "running"
  /\ bad \subseteq sseClients
  /\ members' = rebuildMembers(eventHistory)
  /\ plants' = rebuildPlants(eventHistory)
  /\ messages' = rebuildMessages(eventHistory)
  /\ LET h0 == [clients |-> sseClients, inbox |-> inbox]
         h1 == broadcastToSSEClients(h0, UpdatedMsg("members_updated", members'), bad)
         h2 == broadcastToSSEClients(h1, UpdatedMsg("plants_updated", plants'), {})
         h3 == broadcastToSSEClients(h2, UpdatedMsg("messages_updated", messages'), {})
     IN  /\ sseClients' = h3.clients
         /\ inbox' = h3.inbox
  /\ UNCHANGED <<phase, scanMembers, scanPlants, scanMessages, open>>
  /\ UNCHANGED storeVars
  /\ UNCHANGED stopped

\* A call of rebuildFromHistory while every registered client's stream has
\* room for its three messages.
Rebuild(bad) ==
  /\ \A c \in sseClients : Len(inbox[c]) + 3 <= MaxInbox
  /\ rebuildFromHistory(bad)

\* The server of Spec, with rebuildFromHistory also called while it runs.
RebuildNext ==
  \/ Next
  \/ \E bad \in SUBSET Clients : Rebuild(bad)

SpecRebuild == Init /\ [][RebuildNext]_vars

\* ------------------------------------------------------ the command layer
\* What a command reads from a required field of its input: the value the
\* caller gave, or undefined when the field is missing.  Nothing in
\* PlantExchangeService or in the routes looks at it.
FieldValues == {"given", "undefined"}
MemberData == {[name |-> v] : v \in FieldValues}
PlantData == {[name |-> v] : v \in FieldValues}
MessageData == {[content |-> v] : v \in FieldValues}

\* The plant ids a caller of removePlant can name.
RemovableIds == Ids

\* uuidv4(): an id that occurs nowhere in the log, neither as the id of an
\* entity nor as the plantId of a removal (the least one; any other unused id
\* gives the same behaviour up to renaming).
UsedIds ==
  {eventHistory[k].payload.id :
     k \in {j \in DOMAIN eventHistory : "id" \in DOMAIN eventHistory[j].payload}}
  \cup
  {eventHistory[k].payload.plantId :
     k \in {j \in DOMAIN eventHistory : "plantId" \in DOMAIN eventHistory[j].payload}}

uuidv4 == CHOOSE i \in 1..(NumIds + MaxStoreLog + 1) :
            /\ i \notin UsedIds
            /\ \A j \in 1..(i - 1) : j \in UsedIds

\* The events the commands hand to EventStore.append.
registerMemberEvent(memberData) ==
  createEvent("MEMBER_REGISTERED", [id |-> uuidv4, name |-> memberData.name])
offerPlantEvent(plantData) ==
  createEvent("PLANT_OFFERED",
              [id |-> uuidv4, type |-> "offer", name |-> plantData.name])
requestPlantEvent(plantData) ==
  createEvent("PLANT_WANTED",
              [id |-> uuidv4, type |-> "wanted", name |-> plantData.name])
sendMessageEvent(messageData) ==
  createEvent("MESSAGE_SENT", [id |-> uuidv4, content |-> messageData.content])
removePlantEvent(plantId) == createEvent("PLANT_REMOVED", [plantId |-> plantId])

\* PlantExchangeService.registerMember: createMember, createEvent, append.
registerMember(memberData, bad1, bad2) ==
  /\ Len(eventHistory) < MaxLog
  /\ append(registerMemberEvent(memberData), bad1, bad2)

\* PlantExchangeService.offerPlant
offerPlant(plantData, bad1, bad2) ==
  /\ Len(eventHistory) < MaxLog
  /\ append(offerPlantEvent(plantData), bad1, bad2)

\* A requestPlant that files the plant as an offer.
requestPlantAsOffer(plantData, bad1, bad2) ==
  /\ Len(eventHistory) < MaxLog
  /\ append(offerPlantEvent(plantData), bad1, bad2)

\* PlantExchangeService.requestPlant
requestPlant(plantData, bad1, bad2) ==
  /\ Len(eventHistory) < MaxLog
  /\ append(requestPlantEvent(plantData), bad1, bad2)

\* PlantExchangeService.sendMessage
sendMessage(messageData, bad1, bad2) ==
  /\ Len(eventHistory) < MaxLog
  /\ append(sendMessageEvent(messageData), bad1, bad2)

\* PlantExchangeService.removePlant
removePlant(plantId, bad1, bad2) ==
  /\ Len(eventHistory) < MaxLog
  /\ append(removePlantEvent(plantId), bad1, bad2)

\* The server driven through its command routes.
ServiceNext ==
  \/ Start
  \/ \E d \in MemberData, bad1, bad2 \in SUBSET Clients : registerMember(d, bad1, bad2)
  \/ \E d \in PlantData, bad1, bad2 \in SUBSET Clients : offerPlant(d, bad1, bad2)
  \/ \E d \in PlantData, bad1, bad2 \in SUBSET Clients : requestPlant(d, bad1, bad2)
  \/ \E d \in MessageData, bad1, bad2 \in SUBSET Clients : sendMessage(d, bad1, bad2)
  \/ \E i \in RemovableIds, bad1, bad2 \in SUBSET Clients : removePlant(i, bad1, bad2)
  \/ \E k \in 1..MaxLog : WriteDone(k)
  \/ \E k \in 1..MaxLog : WriteFail(k)
  \/ \E c \in Clients : Register(c)
  \/ \E c \in Clients : Close(c)

SpecService == Init /\ [][ServiceNext]_vars

\* ------------------------------------- appends while initialize is pending
\* initialize() is called and awaits fs.readFile.
BeginInitialize ==
  /\ phase = "constructed"
  /\ phase' = "initializing"
  /\ UNCHANGED <<sseClients, open, inbox>>
  /\ UNCHANGED storeVars
  /\ UNCHANGED projVars
  /\ UNCHANGED stopped

\* EventStore.append called on the store while the read is pending.
EarlyAppend(e) ==
  /\ phase = "initializing"
  /\ Len(calls) < MaxLog
  /\ push(e, {}, {})

\* The read settles: initialize assigns the parsed document, or [] from its
\* catch, to eventHistory, and start() goes on to rebuildFromHistory.
FinishInitialize ==
  /\ phase = "initializing"
  /\ phase' = "running"
  /\ eventHistory' = initialize
  /\ members' = rebuildMembers(eventHistory')
  /\ plants' = rebuildPlants(eventHistory')
  /\ messages' = rebuildMessages(eventHistory')
  /\ LET h0 == [clients |-> sseClients, inbox |-> inbox]
         h1 == broadcastToSSEClients(h0, UpdatedMsg("members_updated", members'), {})
         h2 == broadcastToSSEClients(h1, UpdatedMsg("plants_updated", plants'), {})
         h3 == broadcastToSSEClients(h2, UpdatedMsg("messages_updated", messages'), {})
     IN  /\ sseClients' = h3.clients
         /\ inbox' = h3.inbox
  /\ UNCHANGED <<file, readable, calls, scanMembers, scanPlants, scanMessages, open>>
  /\ UNCHANGED stopped

\* An append after initialize, while fewer than MaxLog appends were invoked.
LateAppend(e) ==
  /\ Len(calls) < MaxLog
  /\ AppendEvent(e, {}, {})

\* A store whose user does not wait for initialize before appending.
InitNext ==
  \/ BeginInitialize
  \/ \E e \in DraftEvents : EarlyAppend(e)
  \/ FinishInitialize
  \/ \E e \in DraftEvents : LateAppend(e)
  \/ \E k \in 1..MaxLog : WriteDone(k)
  \/ \E k \in 1..MaxLog : WriteFail(k)

SpecInit == Init /\ [][InitNext]_vars

\* ------------------------------------------------------- a scripted caller
\* The events of the four-command scenario, in order: a member M1, a plant
\* P1 offered, a plant P2 wanted, the removal of P1.
Scenario ==
  << createEvent("MEMBER_REGISTERED", createMember(1)),
     createEvent("PLANT_OFFERED", createPlant(1, "offer")),
     createEvent("PLANT_WANTED", createPlant(2, "wanted")),
     createEvent("PLANT_REMOVED", [plantId |-> 1]) >>

\* The events the caller goes on with after the scenario.
TailEvents ==
  { createEvent("MESSAGE_SENT", createMessage(1)),
    createEvent("TRADE_INITIATED", [tradeId |-> 1]),
    createEvent("TRADE_COMPLETED", [tradeId |-> 1]) }

\* The caller awaits each append before it invokes the next.
Awaited == \A k \in DOMAIN calls : calls[k].result # "none"

\* The caller appends the next event of the scenario.
ScenarioAppend(bad1, bad2) ==
  /\ Awaited
  /\ Len(calls) < Len(Scenario)
  /\ append(Scenario[Len(calls) + 1], bad1, bad2)

\* The caller appends one more event after the scenario.
TailAppend(e, bad1, bad2) ==
  /\ Awaited
  /\ Len(calls) = Len(Scenario)
  /\ append(e, bad1, bad2)

\* The server under a caller that runs the scenario and one more append,
\* one awaited call after the other.
ScenarioNext ==
  \/ Start
  \/ \E bad1, bad2 \in SUBSET Clients : ScenarioAppend(bad1, bad2)
  \/ \E e \in TailEvents, bad1, bad2 \in SUBSET Clients : TailAppend(e, bad1, bad2)
  \/ \E k \in 1..(Len(Scenario) + 1) : WriteDone(k)
  \/ \E k \in 1..(Len(Scenario) + 1) : WriteFail(k)
  \/ \E c \in Clients : Register(c)
  \/ \E c \in Clients : Close(c)

SpecScenario == Init /\ [][ScenarioNext]_vars

\* ------------------------------------------------------------ a restart
\* The calls of the five commands with complete input.
CommandCalls ==
  {[cmd |-> c, plantId |-> 0] :
     c \in {"registerMember", "offerPlant", "requestPlant", "sendMessage"}}
  \cup {[cmd |-> "removePlant", plantId |-> i] : i \in RemovableIds}

\* The event the command call c creates.
CommandEvent(c) ==
  CASE c.cmd = "registerMember" -> registerMemberEvent([name |-> "given"])
    [] c.cmd = "offerPlant" -> offerPlantEvent([name |-> "given"])
    [] c.cmd = "requestPlant" -> requestPlantEvent([name |-> "given"])
    [] c.cmd = "sendMessage" -> sendMessageEvent([content |-> "given"])
    [] c.cmd = "removePlant" -> removePlantEvent(c.plantId)

\* A command of a caller that awaits each command before the next.  The
\* process started after the restart is followed up to its first command.
Command(c) ==
  /\ Awaited
  /\ Len(eventHistory) < MaxStoreLog
  /\ stopped.ran => calls = <<>>
  /\ append(CommandEvent(c), {}, {})

\* The process stops with no append in flight and the program is started
\* again: `new PlantExchangeServer()` on the events.json the first process
\* left.  Nothing in memory survives; stopped keeps what the first process
\* held, for comparison.
Restart ==
  /\ phase = "running"
  /\ Awaited
  /\ ~stopped.ran
  /\ stopped' = [ran |-> TRUE, eventHistory |-> eventHistory, calls |-> calls,
                 members |-> members, plants |-> plants, messages |-> messages]
  /\ phase' = "constructed"
  /\ eventHistory' = <<>>
  /\ calls' = <<>>
  /\ scanMembers' = EmptyMap
  /\ scanPlants' = EmptyMap
  /\ scanMessages' = EmptyMap
  /\ members' = EmptyMap
  /\ plants' = EmptyMap
  /\ messages' = EmptyMap
  /\ sseClients' = {}
  /\ open' = {}
  /\ inbox' = [c \in Clients |-> <<>>]
  /\ UNCHANGED <<file, readable>>

\* The server under an awaiting caller, stopped and started again once.
RestartNext ==
  \/ Start
  \/ \E c \in CommandCalls : Command(c)
  \/ \E k \in 1..MaxStoreLog : WriteDone(k)
  \/ \E k \in 1..MaxStoreLog : WriteFail(k)
  \/ Restart

\* The first process is started on a new installation: events.json is
\* missing or holds an empty log.
InitEmpty == Init /\ file = <<>>

SpecRestart == InitEmpty /\ [][RestartNext]_vars

\* ------------------------------------------------- the store on its own
\* An append to the store while no SSE client is connected and the log is
\* shorter than MaxStoreLog.
StoreAppend(e) ==
  /\ Len(eventHistory) < MaxStoreLog
  /\ append(e, {}, {})

\* The server without SSE clients: startup, appends and their writes.
StoreNext ==
  \/ Start
  \/ \E e \in DraftEvents : StoreAppend(e)
  \/ \E k \in 1..MaxStoreLog : WriteDone(k)
  \/ \E k \in 1..MaxStoreLog : WriteFail(k)

SpecStore == Init /\ [][StoreNext]_vars

\* ----------------------------------------------------- helpers of the claims
\* The events appended by this process, in call order.
LiveEvents == [k \in 1..Len(calls) |-> calls[k].event]

\* TRUE when the in-memory log started empty: every event of it was appended
\* by this process.
StartedEmpty == phase = "running" /\ Len(calls) = Len(eventHistory)

Front(q) == SubSeq(q, 1, Len(q) - 1)
Last(q) == q[Len(q)]

\* The folds of the three projections over a whole sequence of events, in
\* sequence order, from the empty map.
RECURSIVE FoldMembers(_)
FoldMembers(events) ==
  IF events = <<>> THEN EmptyMap
  ELSE IF membersFilter(Last(events))
       THEN membersScan(FoldMembers(Front(events)), Last(events))
       ELSE FoldMembers(Front(events))

RECURSIVE FoldPlants(_)
FoldPlants(events) ==
  IF events = <<>> THEN EmptyMap
  ELSE IF plantsFilter(Last(events))
       THEN plantsScan(FoldPlants(Front(events)), Last(events))
       ELSE FoldPlants(Front(events))

RECURSIVE FoldMessages(_)
FoldMessages(events) ==
  IF events = <<>> THEN EmptyMap
  ELSE IF messagesFilter(Last(events))
       THEN messagesScan(FoldMessages(Front(events)), Last(events))
       ELSE FoldMessages(Front(events))

\* Two SSE messages are the same message.
SameMsg(m1, m2) == m1.type = m2.type /\ m1.data = m2.data

\* ---------------------------------------------------------------------- C1
\* C1: the in-memory log holds sequenceNumbers 1..N without gap or duplicate,
\* the event at index i (1-based here) carries sequenceNumber i, and no two
\* append calls were given the same sequenceNumber, overlapping or not.
C1_SequenceIntegrity ==
  /\ \A i \in 1..Len(eventHistory) : eventHistory[i].sequenceNumber = i
  /\ \A j, k \in 1..Len(calls) :
       j # k => calls[j].event.sequenceNumber # calls[k].event.sequenceNumber

\* Two appends overlap on a log that started empty: both writes are pending.
C1_Witness ==
  /\ StartedEmpty
  /\ Len(calls) = 2
  /\ calls[1].write = "pending"
  /\ calls[2].write = "pending"

\* ---------------------------------------------------------------------- C2
\* C2: once the server runs, each of members, plants and messages equals the
\* fold, in sequence order from the empty map, of ALL events of the in-memory
\* log (loaded history followed by live appends).
C2_ProjectionsFoldWholeLog ==
  phase = "running" =>
    /\ members = FoldMembers(eventHistory)
    /\ plants = FoldPlants(eventHistory)
    /\ messages = FoldMessages(eventHistory)

\* ---------------------------------------------------------------------- C3
\* C3: on a log that started empty, rebuildFromHistory computes from the N
\* appended events the same members, plants and messages mappings as the
\* incrementally updated projections hold after the Nth append.
C3_ReplayDeterminism ==
  StartedEmpty =>
    /\ rebuildMembers(eventHistory) = members
    /\ rebuildPlants(eventHistory) = plants
    /\ rebuildMessages(eventHistory) = messages

\* ---------------------------------------------------------------------- C4
\* C4: of the messages one append writes to a subscriber that is registered
\* during it, the 'event' message comes first; the '..._updated' messages
\* the append causes come after it.
C4_EventBeforeUpdates ==
  [][\A c \in sseClients \cap sseClients' :
       Len(inbox'[c]) > Len(inbox[c]) =>
         inbox'[c][Len(inbox[c]) + 1].type = "event"]_vars

\* ---------------------------------------------------------------------- C5
\* The messages a step has added to the stream of c.
NewMsgs(c) == SubSeq(inbox'[c], Len(inbox[c]) + 1, Len(inbox'[c]))

\* C5: two subscribers that are both registered before and after a step (so
\* neither suffered a delivery failure in it) are written the same messages
\* by it, message for message and in the same order; hence their streams over
\* any span in which both stay registered are identical.
C5_SameStreams ==
  [][\A a, b \in sseClients \cap sseClients' :
       /\ Len(inbox'[a]) >= Len(inbox[a])
       /\ Len(NewMsgs(a)) = Len(NewMsgs(b))
       /\ \A i \in 1..Len(NewMsgs(a)) : SameMsg(NewMsgs(a)[i], NewMsgs(b)[i])]_vars

\* Two subscribers registered at different times have both received the
\* two messages of a later append.
C5_Witness ==
  \E a, b \in sseClients :
    /\ a # b
    /\ Len(inbox[a]) > Len(inbox[b])
    /\ Len(inbox[b]) >= 3
    /\ SameMsg(Last(inbox[a]), Last(inbox[b]))
    /\ Last(inbox[b]).type = "event"

\* ---------------------------------------------------------------------- C6
\* C6: while no write has failed, the persisted document contains the event
\* of every append that has returned; and once every in-flight append has
\* returned it equals the full in-memory sequence, whatever the order in
\* which the overlapping whole-document writes completed.
C6_PersistedEqualsLog ==
  (\A k \in 1..Len(calls) : calls[k].write # "failed") =>
    /\ \A k \in 1..Len(calls) :
         calls[k].write = "done" =>
           /\ readable
           /\ \E i \in 1..Len(file) : file[i] = calls[k].event
    /\ (Len(calls) > 0 /\ \A k \in 1..Len(calls) : calls[k].write = "done")
         => (readable /\ file = eventHistory)

\* ---------------------------------------------------------------------- C7
\* C7: an append whose durable write failed fails with a PersistenceError
\* visible to its caller; it does not return the event.
C7_WriteFailureSurfaces ==
  \A k \in 1..Len(calls) :
    calls[k].write = "failed" => calls[k].result = "PersistenceError"

\* ---------------------------------------------------------------------- C8
\* The calls whose write fails in this step.
FailingNow ==
  {k \in 1..Len(calls) :
     /\ Len(calls') = Len(calls)
     /\ calls[k].write = "pending"
     /\ calls'[k].write = "failed"}

\* The events of the calls whose write has failed stay in the log, at the
\* index their sequenceNumber names.
FailedEventsKept(history, cs) ==
  \A k \in 1..Len(cs) :
    cs[k].write = "failed" =>
      /\ cs[k].event.sequenceNumber <= Len(history)
      /\ history[cs[k].event.sequenceNumber] = cs[k].event

\* The projection whose filter matches event shows its effect in the maps
\* m, p, g (members, plants, messages).
Folded(event, m, p, g) ==
  /\ membersFilter(event) =>
       (event.payload.id \in DOMAIN m /\ m[event.payload.id] = event.payload)
  /\ plantSetFilter(event) =>
       (event.payload.id \in DOMAIN p /\ p[event.payload.id] = event.payload)
  /\ plantRemovedFilter(event) => event.payload.plantId \notin DOMAIN p
  /\ messagesFilter(event) =>
       (event.payload.id \in DOMAIN g /\ g[event.payload.id] = event.payload)

\* C8: a failed write rolls nothing back.  The step in which the write fails
\* leaves the log, the projections and the subscribers' streams as they are;
\* the event of a failed write stays in the log under its sequenceNumber; and
\* an append that follows is numbered one past the end of the log, which
\* still counts the event whose write failed, is folded by the matching
\* projection and is sent to every subscriber that stays registered.
C8_NoRollback ==
  [][/\ FailingNow # {} =>
          /\ eventHistory' = eventHistory
          /\ <<scanMembers', scanPlants', scanMessages'>> =
               <<scanMembers, scanPlants, scanMessages>>
          /\ <<members', plants', messages'>> = <<members, plants, messages>>
          /\ sseClients' = sseClients
          /\ inbox' = inbox
     /\ FailedEventsKept(eventHistory', calls')
     /\ Len(calls') > Len(calls) =>
          /\ Last(calls').event.sequenceNumber = Len(eventHistory) + 1
          /\ eventHistory' = Append(eventHistory, Last(calls').event)
          /\ Folded(Last(calls').event, members', plants', messages')
          /\ \A c \in sseClients \cap sseClients' :
               SameMsg(Last(inbox'[c]), EventMsg(Last(calls').event))]_vars

\* The write of the first append has failed, the event is in the log, folded
\* and sent, and a second append has been numbered after it.
C8_Witness ==
  /\ Len(calls) = 2
  /\ calls[1].write = "failed"
  /\ eventHistory[calls[1].event.sequenceNumber] = calls[1].event
  /\ calls[2].event.sequenceNumber = calls[1].event.sequenceNumber + 1
  /\ membersFilter(calls[1].event)
  /\ calls[1].event.payload.id \in DOMAIN members
  /\ \E c \in sseClients : \E i \in 1..Len(inbox[c]) :
       SameMsg(inbox[c][i], EventMsg(calls[1].event))

\* ---------------------------------------------------------------------- C9
\* The calls whose write is still pending.
PendingCalls == {k \in 1..Len(calls) : calls[k].write = "pending"}

\* The live events appended before the first call whose write is pending.
SettledPrefix ==
  SubSeq(LiveEvents, 1,
         (CHOOSE k \in PendingCalls : \A j \in PendingCalls : k <= j) - 1)

\* C9: while the write of the document containing e is still pending, no
\* subscriber has been sent the 'event' message of e and no projection has
\* folded e (the scans have folded the events before it and no more).
C9_NotifyAfterPersist ==
  PendingCalls # {} =>
    /\ \A k \in PendingCalls : \A c \in sseClients : \A i \in 1..Len(inbox[c]) :
         ~SameMsg(inbox[c][i], EventMsg(calls[k].event))
    /\ scanMembers = FoldMembers(SettledPrefix)
    /\ scanPlants = FoldPlants(SettledPrefix)
    /\ scanMessages = FoldMessages(SettledPrefix)

\* --------------------------------------------------------------------- C10
\* C10: a subscriber's stream starts with an initial_state message; it is
\* written by the registration itself, its members, plants and messages are
\* the values of the three projections at that moment, and it stays the
\* first message of the stream.
C10_InitialStateFirst ==
  /\ [](\A c \in sseClients :
          /\ inbox[c] # <<>>
          /\ inbox[c][1].type = "initial_state")
  /\ [][\A c \in Clients :
          /\ (c \notin sseClients /\ c \in sseClients') =>
               /\ Len(inbox'[c]) = 1
               /\ inbox'[c][1].type = "initial_state"
               /\ inbox'[c][1].data =
                    [members |-> Values(members), plants |-> Values(plants),
                     messages |-> Values(messages)]
          /\ (c \in sseClients /\ c \in sseClients') =>
               inbox'[c][1] = inbox[c][1]]_vars

\* A subscriber registered after the log (one loaded event, one live event)
\* was folded holds nothing but an initial_state message that shows a member
\* and a plant.
C10_Witness ==
  \E c \in sseClients :
    /\ Len(eventHistory) = 2
    /\ Len(inbox[c]) = 1
    /\ inbox[c][1].type = "initial_state"
    /\ inbox[c][1].data.members # {}
    /\ inbox[c][1].data.plants # {}

\* --------------------------------------------------------------------- C11
\* The step appends one event of type t.
Appends(t) ==
  /\ Len(eventHistory') = Len(eventHistory) + 1
  /\ Last(eventHistory').type = t

\* C11: in a process whose log started empty, appending a PLANT_REMOVED
\* event whose plantId is not a key of the plants projection leaves the
\* plants mapping unchanged, and appending one whose plantId is a key removes
\* exactly that key and leaves every other key and value as it was.
C11_DeletionSemantics ==
  [][(StartedEmpty /\ Appends("PLANT_REMOVED")) =>
       LET plantId == Last(eventHistory').payload.plantId
       IN  /\ plantId \notin DOMAIN plants => plants' = plants
           /\ plantId \in DOMAIN plants =>
                /\ DOMAIN plants' = DOMAIN plants \ {plantId}
                /\ \A k \in DOMAIN plants' : plants'[k] = plants[k]]_vars

\* A log that started empty holds an offered plant, a wanted plant under
\* another id and the removal of the first: the second plant alone is left.
C11_Witness ==
  /\ StartedEmpty
  /\ Len(eventHistory) = 3
  /\ eventHistory[1].type = "PLANT_OFFERED"
  /\ eventHistory[2].type = "PLANT_WANTED"
  /\ eventHistory[3].type = "PLANT_REMOVED"
  /\ eventHistory[3].payload.plantId = eventHistory[1].payload.id
  /\ eventHistory[2].payload.id # eventHistory[1].payload.id
  /\ DOMAIN plants = {eventHistory[2].payload.id}
  /\ plants[eventHistory[2].payload.id] = eventHistory[2].payload

\* --------------------------------------------------------------------- C12
\* The three projections hold what rebuildFromHistory computes from the log.
Rebuilt ==
  /\ members = rebuildMembers(eventHistory)
  /\ plants = rebuildPlants(eventHistory)
  /\ messages = rebuildMessages(eventHistory)

\* C12: rebuildFromHistory replaces the projection values by values computed
\* from the log alone, whatever the projections held before, so a second
\* call with no append in between leaves the three values as the first call
\* left them.
C12_RebuildIdempotent ==
  [][\A bad \in SUBSET sseClients :
       (UNCHANGED <<storeVars, open>> /\ Rebuild(bad)) =>
         /\ Rebuilt'
         /\ Rebuilt => /\ members' = members
                       /\ plants' = plants
                       /\ messages' = messages]_vars

\* In a process whose log started empty the plants projection differs from
\* the accumulator of the incremental pipeline and holds the replayed value:
\* rebuildFromHistory has replaced an incrementally-applied value.
C12_Witness ==
  /\ StartedEmpty
  /\ Len(eventHistory) = 2
  /\ plants # scanPlants
  /\ Rebuilt

\* --------------------------------------------------------------------- C13
\* The messages one append writes to a client that stays registered: the
\* '..._updated' message of the matching projection, if any, and the 'event'.
AppendMsgs(event) ==
  (IF membersFilter(event) THEN <<UpdatedMsg("members_updated", members')>>
   ELSE IF plantsFilter(event) THEN <<UpdatedMsg("plants_updated", plants')>>
   ELSE IF messagesFilter(event) THEN <<UpdatedMsg("messages_updated", messages')>>
   ELSE <<>>) \o <<EventMsg(event)>>

\* C13: when writes to some subscribers throw during the broadcasts of an
\* append, exactly those subscribers are removed from the registered set;
\* every other registered subscriber is written the messages of this append
\* and stays registered for the later ones; and the append goes on to its
\* write and returns its event.
C13_FailedWriteRemovesOnlyThatClient ==
  /\ [][\A bad1, bad2 \in SUBSET sseClients :
          (/\ Len(eventHistory') = Len(eventHistory) + 1
           /\ AppendEvent([type |-> Last(eventHistory').type,
                           payload |-> Last(eventHistory').payload], bad1, bad2)) =>
            /\ sseClients' = sseClients \ (bad1 \cup bad2)
            /\ \A c \in sseClients' :
                 /\ Len(NewMsgs(c)) = Len(AppendMsgs(Last(eventHistory')))
                 /\ \A i \in 1..Len(NewMsgs(c)) :
                      SameMsg(NewMsgs(c)[i], AppendMsgs(Last(eventHistory'))[i])
            /\ Len(calls') = Len(calls) + 1
            /\ Last(calls').event = Last(eventHistory')
            /\ Last(calls').write = "pending"]_vars
  /\ [](\A k \in DOMAIN calls :
          calls[k].write # "pending" => calls[k].result = "event")

\* The only append of the process threw for one connected client and
\* reached another: the first is no longer registered, the second holds the
\* 'event' message, and the append has returned its event.
C13_Witness ==
  \E a \in open \ sseClients : \E b \in sseClients :
    /\ Len(calls) = 1
    /\ calls[1].result = "event"
    /\ inbox[b] # <<>>
    /\ Last(inbox[b]).type = "event"
    /\ Last(inbox[b]).data = Last(eventHistory)

\* --------------------------------------------------------------------- C14
\* The step added exactly one event, of type t, at the end of the log; every
\* subscriber registered after it was written exactly one 'event' message,
\* carrying that event; and the call holds that event, whose sequenceNumber
\* is its 1-based position.
CommandEffect(t) ==
  /\ Appends(t)
  /\ Front(eventHistory') = eventHistory
  /\ \A c \in sseClients' :
       \E i \in 1..Len(NewMsgs(c)) :
         /\ SameMsg(NewMsgs(c)[i], EventMsg(Last(eventHistory')))
         /\ \A j \in 1..Len(NewMsgs(c)) : NewMsgs(c)[j].type = "event" => j = i
  /\ Len(calls') = Len(calls) + 1
  /\ Last(calls').event = Last(eventHistory')
  /\ Last(eventHistory').sequenceNumber = Len(eventHistory')

\* C14: every call of registerMember, offerPlant, requestPlant, sendMessage
\* or removePlant grows the log by exactly one event of the matching type,
\* has exactly one 'event' message written to each registered subscriber, and
\* returns that event, whose sequenceNumber is its 1-based position in the
\* log.
C14_CommandContract ==
  /\ [][eventHistory' # eventHistory =>
          \A bad1 \in SUBSET sseClients : \A bad2 \in SUBSET (sseClients \ bad1) :
            /\ \A d \in MemberData :
                 registerMember(d, bad1, bad2) => CommandEffect("MEMBER_REGISTERED")
            /\ \A d \in PlantData :
                 offerPlant(d, bad1, bad2) => CommandEffect("PLANT_OFFERED")
            /\ \A d \in PlantData :
                 requestPlant(d, bad1, bad2) => CommandEffect("PLANT_WANTED")
            /\ \A d \in MessageData :
                 sendMessage(d, bad1, bad2) => CommandEffect("MESSAGE_SENT")
            /\ \A i \in RemovableIds :
                 removePlant(i, bad1, bad2) => CommandEffect("PLANT_REMOVED")]_vars
  /\ [](\A k \in DOMAIN calls :
          calls[k].result = "event" =>
            /\ calls[k].event.sequenceNumber \in DOMAIN eventHistory
            /\ eventHistory[calls[k].event.sequenceNumber] = calls[k].event)

\* On a log that started empty a requestPlant and a removePlant have both
\* returned their events, numbered 1 and 2, and a subscriber registered
\* throughout holds the two 'event' messages.
C14_Witness ==
  \E c \in sseClients :
    /\ Len(eventHistory) = 2
    /\ Len(calls) = 2
    /\ calls[1].event.type = "PLANT_WANTED"
    /\ calls[2].event.type = "PLANT_REMOVED"
    /\ calls[1].result = "event"
    /\ calls[2].result = "event"
    /\ calls[2].event.sequenceNumber = 2
    /\ Len(inbox[c]) = 5
    /\ Last(inbox[c]).type = "event"
    /\ Last(inbox[c]).data = eventHistory[2]
    /\ inbox[c][3].type = "event"
    /\ inbox[c][3].data = eventHistory[1]

\* --------------------------------------------------------------------- C15
\* C15: a command called with a required field missing is rejected before
\* any event is created: the step leaves the log, the calls of append, the
\* projections, the persisted document and the subscribers' streams as they
\* were.
C15_IncompleteInputRejected ==
  [][\A bad1 \in SUBSET sseClients : \A bad2 \in SUBSET (sseClients \ bad1) :
       (\/ registerMember([name |-> "undefined"], bad1, bad2)
        \/ offerPlant([name |-> "undefined"], bad1, bad2)
        \/ requestPlant([name |-> "undefined"], bad1, bad2)
        \/ sendMessage([content |-> "undefined"], bad1, bad2)) =>
         /\ UNCHANGED <<eventHistory, calls, file, sseClients, inbox>>
         /\ UNCHANGED projVars]_vars

\* --------------------------------------------------------------------- C16
\* The key of the projection entry an event writes or deletes.
KeyOf(event) ==
  IF event.type = "PLANT_REMOVED" THEN event.payload.plantId ELSE event.payload.id

\* Events a and b go to the same projection and the same key.
SameEntry(a, b) ==
  /\ \/ membersFilter(a) /\ membersFilter(b)
     \/ plantsFilter(a) /\ plantsFilter(b)
     \/ messagesFilter(a) /\ messagesFilter(b)
  /\ KeyOf(a) = KeyOf(b)

\* The projections m, p, g show the entry of event as the event left it.
Shows(event, m, p, g) ==
  /\ membersFilter(event) =>
       /\ event.payload.id \in DOMAIN m
       /\ m[event.payload.id] = event.payload
  /\ event.type \in {"PLANT_OFFERED", "PLANT_WANTED"} =>
       /\ event.payload.id \in DOMAIN p
       /\ p[event.payload.id] = event.payload
  /\ event.type = "PLANT_REMOVED" => event.payload.plantId \notin DOMAIN p
  /\ messagesFilter(event) =>
       /\ event.payload.id \in DOMAIN g
       /\ g[event.payload.id] = event.payload

\* C16: read-your-writes.  The append of an event e folds e into the
\* matching projection and writes the '..._updated' message of that
\* projection and the 'event' message of e to every subscriber registered
\* during it, all before the call can return; so whenever an append of e has
\* returned, the matching projection shows e, or a later event of the log
\* on the same entry.
C16_ReadYourWrites ==
  /\ [][Len(calls') = Len(calls) + 1 =>
          LET e == Last(calls').event
          IN  /\ Matches(e) => Shows(e, members', plants', messages')
              /\ Last(eventHistory') = e
              /\ Last(calls').result = "none"
              /\ \A c \in sseClients \cap sseClients' :
                   /\ \E i \in 1..Len(NewMsgs(c)) :
                        SameMsg(NewMsgs(c)[i], EventMsg(e))
                   /\ membersFilter(e) =>
                        \E i \in 1..Len(NewMsgs(c)) :
                          SameMsg(NewMsgs(c)[i], UpdatedMsg("members_updated", members'))
                   /\ plantsFilter(e) =>
                        \E i \in 1..Len(NewMsgs(c)) :
                          SameMsg(NewMsgs(c)[i], UpdatedMsg("plants_updated", plants'))
                   /\ messagesFilter(e) =>
                        \E i \in 1..Len(NewMsgs(c)) :
                          SameMsg(NewMsgs(c)[i], UpdatedMsg("messages_updated", messages'))]_vars
  /\ [](\A k \in DOMAIN calls :
          (calls[k].result # "none" /\ Matches(calls[k].event)) =>
            \E n \in DOMAIN eventHistory :
              /\ n >= calls[k].event.sequenceNumber
              /\ eventHistory[calls[k].event.sequenceNumber] = calls[k].event
              /\ SameEntry(eventHistory[n], calls[k].event)
              /\ \A j \in DOMAIN eventHistory :
                   (j > n) => ~SameEntry(eventHistory[j], calls[k].event)
              /\ Shows(eventHistory[n], members, plants, messages))

\* The append of a MEMBER_REGISTERED event has returned: the member is in
\* the members projection, and a subscriber registered before the append
\* holds the members_updated message and the 'event' message.
C16_Witness ==
  \E c \in sseClients :
    /\ Len(calls) = 1
    /\ calls[1].result = "event"
    /\ calls[1].event.type = "MEMBER_REGISTERED"
    /\ calls[1].event.payload.id \in DOMAIN members
    /\ members[calls[1].event.payload.id] = calls[1].event.payload
    /\ Len(inbox[c]) = 3
    /\ inbox[c][2].type = "members_updated"
    /\ inbox[c][2].data = Values(members)
    /\ inbox[c][3].type = "event"
    /\ inbox[c][3].data = calls[1].event

\* --------------------------------------------------------------------- C17
\* The number of messages of type t in the sequence q.
Count(q, t) == Cardinality({i \in 1..Len(q) : q[i].type = t})

\* The '..._updated' message types an event of type t gives rise to.
UpdatesOf(t) ==
  CASE t = "MEMBER_REGISTERED" -> {"members_updated"}
    [] t \in {"PLANT_OFFERED", "PLANT_WANTED", "PLANT_REMOVED"} -> {"plants_updated"}
    [] t = "MESSAGE_SENT" -> {"messages_updated"}
    [] OTHER -> {}

\* C17: for every appended event, a subscriber registered before it (and
\* still registered after it) is written exactly one 'event' message and
\* exactly one '..._updated' message of each matching projection, and none
\* of the others: members for MEMBER_REGISTERED, plants for PLANT_OFFERED,
\* PLANT_WANTED and PLANT_REMOVED, messages for MESSAGE_SENT, none for
\* TRADE_INITIATED and TRADE_COMPLETED.  On a log that started empty, after
\* the scenario (member M1, plant P1 offered, plant P2 wanted, P1 removed)
\* members holds M1 alone, plants holds P2 alone, the events carry the
\* sequenceNumbers 1..4, and a subscriber registered before the first event
\* has been written four 'event' messages.
C17_MessagesPerEvent ==
  /\ [][Len(calls') = Len(calls) + 1 =>
          \A c \in sseClients \cap sseClients' :
            /\ Count(NewMsgs(c), "event") = 1
            /\ \A u \in UpdateTypes :
                 Count(NewMsgs(c), u) =
                   IF u \in UpdatesOf(Last(calls').event.type) THEN 1 ELSE 0
            /\ Count(NewMsgs(c), "initial_state") = 0]_vars
  /\ []((StartedEmpty /\ Len(eventHistory) = Len(Scenario)) =>
          /\ members = (1 :> createMember(1))
          /\ plants = (2 :> createPlant(2, "wanted"))
          /\ \A n \in 1..Len(Scenario) :
               eventHistory[n] = WithMetadata(Scenario[n], n)
          /\ \A c \in sseClients :
               inbox[c][1].data.members = {} =>
                 Count(inbox[c], "event") = Len(Scenario))

\* The scenario has run on a log that started empty, and a subscriber
\* registered before its first event holds nine messages: initial_state and,
\* for each of the four events, one '..._updated' and one 'event'.
C17_Witness ==
  \E c \in sseClients :
    /\ StartedEmpty
    /\ Len(eventHistory) = 4
    /\ DOMAIN members = {1}
    /\ DOMAIN plants = {2}
    /\ inbox[c][1].data.members = {}
    /\ Len(inbox[c]) = 9
    /\ Count(inbox[c], "event") = 4
    /\ Count(inbox[c], "plants_updated") = 3
    /\ Count(inbox[c], "members_updated") = 1

\* --------------------------------------------------------------------- C18
\* Sequence a is a prefix of sequence b.
IsPrefix(a, b) == Len(a) <= Len(b) /\ SubSeq(b, 1, Len(a)) = a

\* C18: once initialize has loaded a readable document, and writes replacing
\* the whole document at once, the persisted document is at every moment a
\* prefix of the in-memory log, however appends, write completions and write
\* failures interleave.
C18_PersistedIsPrefix ==
  (phase = "running" /\ readable) => IsPrefix(file, eventHistory)

\* After one loaded event and two appends whose writes have both completed,
\* the later document first and the earlier one last: events.json holds two
\* of the three events of the log.
C18_Witness ==
  /\ phase = "running"
  /\ readable
  /\ Len(eventHistory) = 3
  /\ Len(calls) = 2
  /\ calls[1].write = "done"
  /\ calls[2].write = "done"
  /\ file = calls[1].doc
  /\ Len(file) = 2

\* --------------------------------------------------------------------- C19
\* C19: EventStore.initialize never fails: whatever events.json holds, the
\* start goes through.  When the file is missing, unreadable or does not
\* parse, the in-memory log is empty after it, and the appends of the
\* process are numbered from 1.
C19_InitializeNeverFails ==
  /\ [](phase = "constructed" => ENABLED Start)
  /\ [][(phase = "constructed" /\ phase' = "running" /\ ~readable) =>
          eventHistory' = <<>>]_vars
  /\ []((phase = "running" /\ ~readable) =>
          /\ Len(eventHistory) = Len(calls)
          /\ \A n \in DOMAIN eventHistory :
               /\ eventHistory[n] = calls[n].event
               /\ eventHistory[n].sequenceNumber = n)

\* The server started on a file it could not read, and its first append
\* carries sequenceNumber 1.
C19_Witness ==
  /\ phase = "running"
  /\ ~readable
  /\ Len(eventHistory) = 1
  /\ Len(calls) = 1
  /\ calls[1].event.sequenceNumber = 1

\* --------------------------------------------------------------------- C20
\* C20: once initialize has completed the in-memory log is append-only: the
\* log of an earlier state is a prefix of the log of every later state, and
\* a step that is not an append (rebuildFromHistory with its getEvents, a
\* registration with its getCurrentState, a deregistration, a write
\* completing or failing, the broadcasts) leaves the log as it was.
C20_LogAppendOnly ==
  [][phase = "running" =>
       /\ IsPrefix(eventHistory, eventHistory')
       /\ Len(calls') = Len(calls) => eventHistory' = eventHistory
       /\ Len(calls') # Len(calls) =>
            /\ Len(eventHistory') = Len(eventHistory) + 1
            /\ Last(eventHistory') = Last(calls').event]_vars

\* After two appends a subscriber registered and rebuildFromHistory ran (its
\* three '..._updated' messages follow the subscriber's initial_state): the
\* log still holds the two events, numbered 1 and 2.
C20_Witness ==
  \E c \in sseClients :
    /\ Len(calls) = 2
    /\ Len(eventHistory) = 2
    /\ eventHistory[1] = calls[1].event
    /\ eventHistory[2] = calls[2].event
    /\ Len(inbox[c]) = 4
    /\ inbox[c][2].type = "members_updated"
    /\ inbox[c][3].type = "plants_updated"
    /\ inbox[c][4].type = "messages_updated"

\* --------------------------------------------------------------------- C22
IsEventMsg(m) == m.type = "event"

\* The events carried by the 'event' messages of the sequence q, in order.
EventsIn(q) ==
  LET evs == SelectSeq(q, IsEventMsg)
  IN  [i \in 1..Len(evs) |-> evs[i].data]

\* Sequence a is the end of sequence b.
IsSuffix(a, b) ==
  /\ Len(a) <= Len(b)
  /\ SubSeq(b, Len(b) - Len(a) + 1, Len(b)) = a

\* C22: a registration writes no 'event' message, so a subscriber that
\* registers after k events never receives one of them; while it stays
\* registered every append writes it exactly one 'event' message, for the
\* appended event, and no other step writes it any; hence the 'event'
\* messages it holds are, in order, the events k+1, k+2, ... of the log, with
\* consecutive sequenceNumbers, up to the last one.
C22_EventsSinceRegistration ==
  /\ [](\A c \in sseClients :
          /\ IsSuffix(EventsIn(inbox[c]), eventHistory)
          /\ \A i \in 1..Len(EventsIn(inbox[c])) :
               EventsIn(inbox[c])[i].sequenceNumber =
                 Len(eventHistory) - Len(EventsIn(inbox[c])) + i)
  /\ [][\A c \in sseClients' :
          /\ c \notin sseClients => EventsIn(inbox'[c]) = <<>>
          /\ (c \in sseClients /\ Len(calls') = Len(calls)) =>
               EventsIn(inbox'[c]) = EventsIn(inbox[c])
          /\ (c \in sseClients /\ Len(calls') = Len(calls) + 1) =>
               EventsIn(inbox'[c]) =
                 Append(EventsIn(inbox[c]), Last(eventHistory'))]_vars

\* A subscriber that registered after the first of two events holds one
\* 'event' message, for the second event; the first reached it only as part
\* of its initial_state.
C22_Witness ==
  \E c \in sseClients :
    /\ StartedEmpty
    /\ Len(eventHistory) = 2
    /\ eventHistory[1].type = "MEMBER_REGISTERED"
    /\ inbox[c][1].data.members = {eventHistory[1].payload}
    /\ Len(EventsIn(inbox[c])) = 1
    /\ EventsIn(inbox[c])[1] = eventHistory[2]
    /\ EventsIn(inbox[c])[1].sequenceNumber = 2

\* --------------------------------------------------------------------- C23
\* C23: deregistration is idempotent and local.  The 'close' of a connection
\* takes that connection's response out of the registered set and no other;
\* when the failure path of a broadcast has already removed it, the set
\* stays as it is.  The failure path runs only over registered responses, so
\* it cannot remove one a second time.  A response that is out of the set is
\* written no message by any later broadcast and does not come back while
\* its connection lasts.
C23_DeregisterIdempotent ==
  /\ [][\A c \in Clients :
          /\ (c \in open /\ c \notin open') =>
               /\ sseClients' = sseClients \ {c}
               /\ c \notin sseClients => sseClients' = sseClients
               /\ \A o \in Clients \ {c} : inbox'[o] = inbox[o]
          /\ (c \in open /\ c \notin sseClients) =>
               /\ c \notin sseClients'
               /\ inbox'[c] = <<>>]_vars
  /\ [](/\ sseClients \subseteq open
        /\ \A c \in Clients \ sseClients : inbox[c] = <<>>)

\* A response was removed by the failure path of a broadcast while its
\* connection is still open; another subscriber has since been written the
\* messages of a second append, the removed one nothing.
C23_Witness ==
  \E a \in open \ sseClients : \E b \in sseClients :
    /\ Len(calls) = 2
    /\ inbox[a] = <<>>
    /\ Count(inbox[b], "event") = 2

\* --------------------------------------------------------------------- C25
\* C25: from the end of startup on, in any process (one started on a
\* non-empty persisted history included), an id that is a key of the members
\* projection stays a key in every later state, and likewise for the
\* messages projection.
C25_MembersMessagesOnlyGrow ==
  [][phase = "running" =>
       /\ DOMAIN members \subseteq DOMAIN members'
       /\ DOMAIN messages \subseteq DOMAIN messages']_vars

\* --------------------------------------------------------------------- C26
\* C26: an append adds its event to the log and leaves unchanged the value
\* of every projection that does not go with the event's type: members
\* changes only on MEMBER_REGISTERED, plants only on PLANT_OFFERED,
\* PLANT_WANTED and PLANT_REMOVED, messages only on MESSAGE_SENT, and
\* TRADE_INITIATED / TRADE_COMPLETED change none of the three.
C26_LiveUpdateFrame ==
  [][Len(calls') = Len(calls) + 1 =>
       LET t == Last(calls').event.type
       IN  /\ eventHistory' = Append(eventHistory, Last(calls').event)
           /\ t # "MEMBER_REGISTERED" => members' = members
           /\ t \notin {"PLANT_OFFERED", "PLANT_WANTED", "PLANT_REMOVED"} =>
                plants' = plants
           /\ t # "MESSAGE_SENT" => messages' = messages]_vars

\* The server started on a history that registers a member and then
\* appended a PLANT_OFFERED event: the event is in the log and in plants, and
\* members still holds the loaded member.
C26_Witness ==
  /\ Len(calls) = 1
  /\ Len(eventHistory) = 2
  /\ eventHistory[1].type = "MEMBER_REGISTERED"
  /\ eventHistory[2].type = "PLANT_OFFERED"
  /\ eventHistory[2] = calls[1].event
  /\ members = (eventHistory[1].payload.id :> eventHistory[1].payload)
  /\ plants = (eventHistory[2].payload.id :> eventHistory[2].payload)
  /\ messages = EmptyMap

\* --------------------------------------------------------------------- C29
\* The position of the last message of type t in q (0 when there is none).
LastOf(q, t) ==
  LET at == {i \in 1..Len(q) : q[i].type = t}
  IN  IF at = {} THEN 0 ELSE CHOOSE i \in at : \A j \in at : j <= i

\* The most recent snapshot of a projection in the stream q: the data of the
\* last '..._updated' message of type t, or else the field f of the
\* initial_state message the stream starts with.
Snapshot(q, t, f) ==
  IF LastOf(q, t) = 0 THEN q[1].data[f] ELSE q[LastOf(q, t)].data

\* C29: in a process whose log started empty, between the steps of the
\* server the most recent snapshot a registered subscriber has been written
\* for each projection (in its initial_state or in a later '..._updated'
\* message) is the server's current value of that projection.
C29_SubscriberViewConverges ==
  StartedEmpty =>
    \A c \in sseClients :
      /\ Snapshot(inbox[c], "members_updated", "members") = Values(members)
      /\ Snapshot(inbox[c], "plants_updated", "plants") = Values(plants)
      /\ Snapshot(inbox[c], "messages_updated", "messages") = Values(messages)

\* One subscriber registered on the empty server and followed a member and a
\* plant through '..._updated' messages; another registered afterwards and
\* has both in its initial_state.
C29_Witness ==
  \E a, b \in sseClients :
    /\ StartedEmpty
    /\ Len(eventHistory) = 2
    /\ members # EmptyMap
    /\ plants # EmptyMap
    /\ inbox[a][1].data.members = {}
    /\ LastOf(inbox[a], "members_updated") # 0
    /\ LastOf(inbox[a], "plants_updated") # 0
    /\ Len(inbox[b]) = 1
    /\ inbox[b][1].data.members = Values(members)
    /\ inbox[b][1].data.plants = Values(plants)

\* --------------------------------------------------------------------- C27
\* C27: provided every started file write completes or fails in the end,
\* every invoked append returns its event to its caller, however many
\* appends overlap and whatever the registered subscribers do; nothing in
\* the append waits for a subscriber, and no step revokes it.
C27_AppendReturns ==
  \A k \in 1..MaxLog :
    (Len(calls) >= k) ~> (Len(calls) >= k /\ calls[k].result = "event")

\* Two appends overlapped (the write of the first settled after the write of
\* the second had completed) while a subscriber was registered, and both
\* have returned.
C27_Witness ==
  /\ Len(calls) = 2
  /\ calls[1].result = "event"
  /\ calls[2].result = "event"
  /\ calls[1].write = "done"
  /\ calls[2].write = "done"
  /\ file = calls[1].doc
  /\ sseClients # {}

\* --------------------------------------------------------------------- C30
\* C30: with initialize and append interleaved on one store, an event that
\* append has added to the in-memory log and returned is in the log, at the
\* index its sequenceNumber names, in every later state, and no other event
\* of the log carries its sequenceNumber.
C30_ReturnedEventStays ==
  \A k \in DOMAIN calls :
    calls[k].result = "event" =>
      /\ calls[k].event.sequenceNumber \in DOMAIN eventHistory
      /\ eventHistory[calls[k].event.sequenceNumber] = calls[k].event
      /\ \A n \in DOMAIN eventHistory :
           eventHistory[n].sequenceNumber = calls[k].event.sequenceNumber =>
             n = calls[k].event.sequenceNumber

\* --------------------------------------------------------------------- C21
\* Every write of the calls cs succeeded.
AllWritten(cs) == \A k \in DOMAIN cs : cs[k].write = "done"

\* C21: load round trip.  When the appends of a process did not overlap and
\* all their writes succeeded, the process started next on the same file
\* holds after initialize the event sequence the first process held (same
\* events, same order, same sequenceNumbers), and its next append carries
\* the sequenceNumber N + 1.
C21_LoadRoundTrip ==
  (stopped.ran /\ AllWritten(stopped.calls) /\ phase = "running") =>
    /\ calls = <<>> => eventHistory = stopped.eventHistory
    /\ calls # <<>> =>
         /\ Front(eventHistory) = stopped.eventHistory
         /\ Last(eventHistory) = calls[1].event
         /\ calls[1].event.sequenceNumber = Len(stopped.eventHistory) + 1

\* A process appended two events and wrote both; the process started after
\* it has loaded them and appended a third event, numbered 3.
C21_Witness ==
  /\ stopped.ran
  /\ Len(stopped.calls) = 2
  /\ AllWritten(stopped.calls)
  /\ phase = "running"
  /\ Len(eventHistory) = 3
  /\ SubSeq(eventHistory, 1, 2) = stopped.eventHistory
  /\ Len(calls) = 1
  /\ calls[1].event.sequenceNumber = 3

\* --------------------------------------------------------------------- C24
\* C24: recovery by replay.  A process started on an empty log ran commands
\* (each created entity under a fresh id), one after the other, and every
\* write succeeded; the process started next on the same file holds, after
\* initialize and rebuildFromHistory and before any append, the members,
\* plants and messages mappings the first process held when it stopped.
C24_RecoveryByReplay ==
  (stopped.ran /\ AllWritten(stopped.calls) /\ phase = "running" /\ calls = <<>>) =>
    /\ members = stopped.members
    /\ plants = stopped.plants
    /\ messages = stopped.messages

\* The first process offered a plant, took a request for another and removed
\* the first; the process started after it holds the second plant alone, as
\* the first process did.
C24_Witness ==
  /\ stopped.ran
  /\ AllWritten(stopped.calls)
  /\ Len(stopped.calls) = 3
  /\ stopped.calls[1].event.type = "PLANT_OFFERED"
  /\ stopped.calls[2].event.type = "PLANT_WANTED"
  /\ stopped.calls[3].event.type = "PLANT_REMOVED"
  /\ stopped.calls[3].event.payload.plantId = stopped.calls[1].event.payload.id
  /\ phase = "running"
  /\ calls = <<>>
  /\ DOMAIN plants = {stopped.calls[2].event.payload.id}
  /\ plants = stopped.plants

\* --------------------------------------------------------------------- C28
\* C28: sequence numbers are not reused across a restart.  When a process
\* returned an event e with sequenceNumber n to a caller, no append of the
\* process started next on the persisted file gives n to an event other than
\* e, whichever writes of the first process succeeded or failed.
C28_NoReuseAcrossRestart ==
  (stopped.ran /\ phase = "running") =>
    \A k \in DOMAIN stopped.calls : \A j \in DOMAIN calls :
      (/\ stopped.calls[k].result = "event"
       /\ calls[j].event.sequenceNumber = stopped.calls[k].event.sequenceNumber) =>
        calls[j].event = stopped.calls[k].event
=============================================================================
